---- MODULE Spec2Model ----
(***************************************************************************)
(* The D2D / cellular mode-selection simulator: the random-waypoint UEs    *)
(* (simulator/entities.py), the channel models (simulator/channel_model.py *)
(* and simulator_paper/channel_model.py), the two episode engines          *)
(* (simulator/environment.py, simulator_paper/environment.py) and the two  *)
(* dataset generators (simulator/run_simulation.py and                     *)
(* scripts/run_paper_simulation.py).                                       *)
(*                                                                         *)
(* Units.  Python computes in float64; the model computes in fixed point:  *)
(*   positions, radii, speeds x dt   integer metres                        *)
(*   distances between entities      integer decimetres (dm), floor of the *)
(*                                   Euclidean norm                        *)
(*   dB and dBm quantities           integer centi-dB (cdB)                *)
(*   linear powers, ratios, gains    decimal floats [m, e] = m * 10^(e-3), *)
(*                                   1000 <= m <= 9999, or Zero            *)
(*   np.random.rand() values         integer 1e-4 units, 0 .. 9999         *)
(*   angles                          1e-4 turns (2500 = pi/2)              *)
(*   throughputs                     integer milli-Mbps                    *)
(* Every call of a numpy.random sampling function is one draw.  A draw is  *)
(* a nondeterministic choice from a small sample of the function's range;  *)
(* after np.random.seed the choices are recorded on the tape, so that      *)
(* seeding again replays the same stream.                                  *)
(***************************************************************************)
EXTENDS Integers, Sequences, FiniteSets, TLC

VARIABLES
    cfg,          \* the configuration class in force (SimulationConfig / PaperConfig)
    sampling,     \* which draws of the run are sampled widely (a bound of the model)
    pc,           \* where the caller of the environment stands
    d2d_tx,       \* D2DEnvironment.d2d_tx
    d2d_rx,       \* D2DEnvironment.d2d_rx
    interferers,  \* D2DEnvironment.interferers
    time_step,    \* D2DEnvironment.time_step
    state,        \* the dict returned by the last step(), None before
    work,         \* the local variables of the last step()
    draws,        \* the numpy.random calls made by the last handler, in order
    rng,          \* the global numpy.random stream: seeded or not, position
    tape,         \* the values of the seeded stream drawn so far
    all_records,  \* generate_dataset: all_records
    episode,      \* generate_dataset: the loop variable episode
    run,          \* which run of the generator is executing (1 or 2)
    first_run,    \* the records the first run collected
    failure,      \* the exception that ended the last handler, "none" otherwise
    call          \* the last direct call of a channel-model function

vars == <<cfg, sampling, pc, d2d_tx, d2d_rx, interferers, time_step, state, work,
          draws, rng, tape, all_records, episode, run, first_run, failure, call>>

None == [kind |-> "None"]

(***************************************************************************)
(* Fixed-point arithmetic standing for float64.                            *)
(***************************************************************************)

Max(a, b) == IF a >= b THEN a ELSE b

RECURSIVE ISqrtBin(_, _, _)
\* the largest r in lo..hi with r*r <= n (lo*lo <= n is given)
ISqrtBin(n, lo, hi) ==
    IF lo >= hi THEN lo
    ELSE LET mid == (lo + hi + 1) \div 2
         IN  IF mid * mid <= n THEN ISqrtBin(n, mid, hi)
             ELSE ISqrtBin(n, lo, mid - 1)

\* floor of the square root (np.sqrt, np.linalg.norm), n < 2^31
ISqrt(n) == ISqrtBin(n, 0, IF n < 10000 THEN 100 ELSE IF n < 1000000 THEN 1000 ELSE 46340)

Zero == [m |-> 0, e |-> 0]

One == [m |-> 1000, e |-> 0]

RECURSIVE Norm(_, _)
\* the float of value m * 10^(e-3), mantissa truncated to four digits
Norm(m, e) ==
    IF m = 0 THEN Zero
    ELSE IF m >= 10000 THEN Norm(m \div 10, e + 1)
    ELSE IF m < 1000 THEN Norm(m * 10, e - 1)
    ELSE [m |-> m, e |-> e]

FromInt(n) == Norm(n, 3)

IsPositive(a) == a.m > 0

Mul(a, b) == Norm(a.m * b.m, a.e + b.e - 3)

\* b is not Zero
Div(a, b) == Norm((a.m * 100000) \div b.m, a.e - b.e - 2)

Pow10Int(k) == 10 ^ k

Add(a, b) ==
    IF a.m = 0 THEN b
    ELSE IF b.m = 0 THEN a
    ELSE LET hi == IF a.e >= b.e THEN a ELSE b
             lo == IF a.e >= b.e THEN b ELSE a
             d  == hi.e - lo.e
         IN  IF d > 8 THEN hi
             ELSE Norm(hi.m * 10000
                         + (IF d <= 4 THEN lo.m * Pow10Int(4 - d)
                            ELSE lo.m \div Pow10Int(d - 4)),
                       hi.e - 4)

\* 10^(a/10), 10^(a/100), 10^(a/1000) for a = 0..9, scaled by 10^4
Tenths == <<10000, 12589, 15849, 19953, 25119, 31623, 39811, 50119, 63096, 79433>>

Hundredths == <<10000, 10233, 10471, 10715, 10965, 11220, 11482, 11749, 12023, 12303>>

Thousandths == <<10000, 10023, 10046, 10069, 10093, 10116, 10139, 10162, 10186, 10209>>

\* the largest digit a in 0..9 with table[a+1] <= x (table[1] <= x is given)
Digit(table, x) == CHOOSE a \in 0..9 :
    /\ table[a + 1] <= x
    /\ (a = 9 \/ table[a + 2] > x)

\* 10 ** (k / 1000): k in thousandths of a decade (any integer)
Pow10Milli(k) ==
    LET q == k \div 1000
        r == k % 1000
        a == r \div 100
        b == (r \div 10) % 10
        c == r % 10
        m == (((Tenths[a + 1] * Hundredths[b + 1]) \div 10000) * Thousandths[c + 1]) \div 10000
    IN  Norm(m, q - 1)

\* floor(1000 * log10(x)) for a positive float x; NegInf for Zero (np.log10(0) = -inf)
NegInf == -(10 ^ 9)

Log10Milli(x) ==
    IF x.m = 0 THEN NegInf
    ELSE LET s  == x.m * 10
             a  == Digit(Tenths, s)
             s1 == (s * 10000) \div Tenths[a + 1]
             b  == Digit(Hundredths, Max(s1, 10000))
             s2 == (Max(s1, 10000) * 10000) \div Hundredths[b + 1]
             c  == Digit(Thousandths, Max(s2, 10000))
         IN  1000 * x.e + 100 * a + 10 * b + c

\* floor(1000 * log2(x)) for a float x >= 1
Log2Milli(x) == (Log10Milli(x) * 10000) \div 3010

(***************************************************************************)
(* Bounds of the model.                                                    *)
(***************************************************************************)

\* the episodes and the steps per episode a generator run executes: they stand
\* for NUM_EPISODES (50 / 100) and STEPS_PER_EPISODE (100 / 300)
NumEpisodes == 2

StepsPerEpisode == 2

\* step() calls the environment specification follows after one reset()
MaxSteps == 2

\* the direct calls of channel functions in a run
MaxCalls == 2

\* interferers Int_0 .. Int_(RichInterferers-1) take every sampled draw, the
\* others the first sample only
RichInterferers == 1

(***************************************************************************)
(* simulator/config.py and simulator_paper/config.py.  dB values are in    *)
(* cdB, PROBABILITY_START_MOVING in 1e-4, INTERFERENCE_LOAD_FACTOR a float.*)
(***************************************************************************)

SimulationConfig == [
    kind |-> "proposed",
    NUM_EPISODES |-> NumEpisodes,
    STEPS_PER_EPISODE |-> StepsPerEpisode,
    D2D_MAX_DIST_M |-> 50,
    SEED |-> 42,
    PROBABILITY_START_MOVING |-> 1000,
    USE_RANDOM_SHADOWING |-> FALSE,
    USE_RAYLEIGH_FADING |-> TRUE,
    INTERFERENCE_LOAD_FACTOR |-> One,
    BANDWIDTH_HZ |-> 10000000,
    CARRIER_FREQ_MHZ |-> 700,
    CELL_RADIUS_M |-> 500,
    TX_POWER_BS_DBM |-> 4600,
    TX_POWER_D2D_DBM |-> 2300,
    PATH_LOSS_CELLULAR_A |-> 12810,
    PATH_LOSS_CELLULAR_B |-> 3760,
    PATH_LOSS_D2D_A |-> 3245,
    PATH_LOSS_D2D_B_FREQ |-> 2000,
    PATH_LOSS_D2D_C_DIST |-> 2000,
    SHADOWING_SIGMA_DB |-> 600,
    SHADOWING_SIGMA_MIN |-> 400,
    SHADOWING_SIGMA_MAX |-> 800,
    TIME_STEP_S |-> 1,
    NUM_INTERFERING_DEVICES |-> 20,
    SPEED_MIN |-> 1,
    SPEED_MAX |-> 10]

PaperConfig == [
    kind |-> "paper",
    NUM_EPISODES |-> NumEpisodes,
    STEPS_PER_EPISODE |-> StepsPerEpisode,
    D2D_MAX_DIST_M |-> 500,
    SEED |-> 42,
    PROBABILITY_START_MOVING |-> 10000,
    INTERFERENCE_LOAD_FACTOR |-> [m |-> 1000, e |-> -1],
    BANDWIDTH_HZ |-> 20000000,
    CARRIER_FREQ_MHZ |-> 700,
    CELL_RADIUS_M |-> 500,
    TX_POWER_BS_DBM |-> 4600,
    TX_POWER_D2D_DBM |-> 2300,
    PATH_LOSS_CELLULAR_A |-> 12810,
    PATH_LOSS_CELLULAR_B |-> 3760,
    PATH_LOSS_D2D_A |-> 3245,
    PATH_LOSS_D2D_B_FREQ |-> 2000,
    PATH_LOSS_D2D_C_DIST |-> 2000,
    TIME_STEP_S |-> 1,
    NUM_INTERFERER |-> 20,
    SPEED |-> 3]

\* NOISE_POWER_DBM = -174 + 10 * np.log10(BANDWIDTH_HZ), in cdB
NOISE_POWER_DBM(c) == -17400 + Log10Milli(FromInt(c.BANDWIDTH_HZ))

\* get_noise_power_watts: 10 ** ((NOISE_POWER_DBM - 30) / 10)
get_noise_power_watts(c) == Pow10Milli(NOISE_POWER_DBM(c) - 3000)

(***************************************************************************)
(* The samples of the numpy.random calls.  Each set is a sample of the     *)
(* range the call has in the code; "rich" says whether the entity or link  *)
(* that draws is one the run samples widely.                               *)
(***************************************************************************)

Geometry == sampling = "geometry"

\* a run that calls the methods of one UserEquipment directly
SingleUE == sampling = "ue"

\* np.random.rand() under the square root of _get_random_point_in_cell:
\* perfect squares, 0.0001 -> radius 0.01 R, 0.0004 -> radius 0.02 R and
\* 0.9801 -> radius 0.99 R
RadiusSamples(rich) ==
    IF rich /\ SingleUE THEN {1, 4, 9801}
    ELSE IF rich /\ sampling \in {"geometry", "generator"} THEN {4, 9801} ELSE {9801}

\* np.random.rand() times 2 pi in _get_random_point_in_cell
AngleSamples(rich) == IF rich /\ SingleUE THEN {0, 5000} ELSE {0}

\* np.random.uniform(low, high) for a speed: the samples inside [low, high)
SpeedSamples(rich, low, high) ==
    {v \in (IF rich /\ sampling \in {"generator", "ue"} THEN {5, 8} ELSE {5}) :
        low <= v /\ v < high}

\* np.random.rand() compared with PROBABILITY_START_MOVING p in move(): a value
\* that keeps the UE paused where there is one and, for a widely sampled UE,
\* a value that starts it moving; for a UE called directly, 0.0 as well
ResumeSamples(rich, p) ==
    IF rich /\ SingleUE THEN {0} \cup {v \in {p \div 2, (p + 10000) \div 2} : v < 10000}
    ELSE IF p >= 10000 THEN {p \div 2}
    ELSE IF rich /\ Geometry /\ p > 0 THEN {p \div 2, (p + 10000) \div 2}
    ELSE {(p + 10000) \div 2}

\* np.random.uniform(0, 2*np.pi) in reset()
BearingSamples == IF Geometry THEN {0, 2500, 5000} ELSE {0}

\* np.random.uniform(10, D2D_MAX_DIST_M) in reset()
SeparationSamples(high) ==
    {v \in (IF Geometry THEN {10, 49} ELSE {10}) : 10 <= v /\ v < high}

\* np.random.randint(10, 21) in reset()
PoolSamples == IF sampling = "channel" THEN {10, 20} ELSE {10}

\* np.random.uniform(SHADOWING_SIGMA_MIN, SHADOWING_SIGMA_MAX), in cdB
SigmaSamples(rich, low, high) ==
    {v \in (IF rich /\ sampling = "channel" THEN {400, 700} ELSE {600}) :
        low <= v /\ v < high}

\* np.random.randn(), in hundredths
RandnSamples(rich) == IF rich /\ sampling = "channel" THEN {-100, 100} ELSE {0}

\* np.random.exponential(scale=1.0), in thousandths; the samples are positive
ExponentialSamples(rich) == IF rich /\ sampling = "channel" THEN {500, 2000} ELSE {1000}

\* the interferers sampled widely are the first RichInterferers ones; a run of
\* the generator samples widely the transmitter only
Rich(i) == i < RichInterferers /\ sampling # "generator"

RichRx == sampling # "generator"

\* one numpy.random call: the function, the place that calls it, the value
Draw(fn, site, v) == [fn |-> fn, site |-> site, v |-> v]

\* the calls of a list of draws without their values
Tags(dl) == [i \in 1..Len(dl) |-> [fn |-> dl[i].fn, site |-> dl[i].site]]

\* the values of a list of draws
Values(dl) == [i \in 1..Len(dl) |-> dl[i].v]

(***************************************************************************)
(* simulator/entities.py                                                   *)
(***************************************************************************)

\* np.cos and np.sin of an angle in 1e-4 turns; the sampled angles are
\* multiples of a quarter turn, where both are exact
Cos(angle) == CASE angle = 0 -> 1 [] angle = 2500 -> 0 [] angle = 5000 -> -1 [] angle = 7500 -> 0

Sin(angle) == CASE angle = 0 -> 0 [] angle = 2500 -> 1 [] angle = 5000 -> 0 [] angle = 7500 -> -1

\* np.linalg.norm of a vector, in decimetres
NormDm(v) == ISqrt(100 * (v[1] * v[1] + v[2] * v[2]))

\* np.linalg.norm of a vector whose length is a whole number of metres
NormM(v) == ISqrt(v[1] * v[1] + v[2] * v[2])

\* BaseStation.__init__
BaseStation(c) == [position |-> <<0, 0>>, tx_power_dbm |-> c.TX_POWER_BS_DBM]

\* get_distance_to of BaseStation and of UserEquipment
get_distance_to(self, other_entity) ==
    NormDm(<<self.position[1] - other_entity.position[1],
             self.position[2] - other_entity.position[2]>>)

\* UserEquipment._get_random_point_in_cell with its two rand() values
get_random_point_in_cell(c, u_radius, u_angle) ==
    LET radius == (c.CELL_RADIUS_M * ISqrt(u_radius)) \div 100
    IN  <<radius * Cos(u_angle), radius * Sin(u_angle)>>

\* the motion from position to destination in steps of step_distance stays on
\* whole metres: the model samples only such motions
ExactMotion(position, destination, step_distance) ==
    LET v == <<destination[1] - position[1], destination[2] - position[2]>>
        n == NormM(v)
    IN  /\ n * n = v[1] * v[1] + v[2] * v[2]
        /\ n > 0 => /\ (v[1] * step_distance) % n = 0
                    /\ (v[2] * step_distance) % n = 0

\* the low and high of the np.random.uniform that draws the speed
SpeedRange(c, speed_type) ==
    CASE speed_type = "pedestrian" -> <<1, 3>>
      [] speed_type = "vehicle" -> <<3, 10>>
      [] OTHER -> <<c.SPEED_MIN, c.SPEED_MAX>>

\* the draws of a UserEquipment.__init__ whose position the caller replaces
UEDrawSetRaw(c, speed_type, rich) ==
    [pr : RadiusSamples(FALSE), pa : AngleSamples(FALSE),
     dr : RadiusSamples(rich), da : AngleSamples(rich),
     sp : SpeedSamples(rich, SpeedRange(c, speed_type)[1], SpeedRange(c, speed_type)[2])]

\* the draws of UserEquipment.__init__: position, destination, speed
UEDrawSet(c, speed_type, rich) ==
    {d \in [pr : RadiusSamples(rich), pa : AngleSamples(rich),
            dr : RadiusSamples(rich), da : AngleSamples(rich),
            sp : SpeedSamples(rich, SpeedRange(c, speed_type)[1],
                              SpeedRange(c, speed_type)[2])] :
        ExactMotion(get_random_point_in_cell(c, d.pr, d.pa),
                    get_random_point_in_cell(c, d.dr, d.da),
                    d.sp * c.TIME_STEP_S)}

UEDrawList(who, d) ==
    <<Draw("rand", who \o ".position.radius", d.pr),
      Draw("rand", who \o ".position.angle", d.pa),
      Draw("rand", who \o ".destination.radius", d.dr),
      Draw("rand", who \o ".destination.angle", d.da),
      Draw("uniform", who \o ".speed", d.sp)>>

\* UserEquipment.__init__
UserEquipment(c, device_id, d) == [
    device_id |-> device_id,
    position |-> get_random_point_in_cell(c, d.pr, d.pa),
    destination |-> get_random_point_in_cell(c, d.dr, d.da),
    is_paused |-> FALSE,
    speed |-> d.sp,
    tx_power_dbm |-> c.TX_POWER_D2D_DBM]

\* a move() that draws nothing
NoMoveDraw == [u |-> 0, dr |-> 0, da |-> 0]

\* the pause test with <= in the place of <
Resumes_inclusive(c, self, d) == self.is_paused /\ d.u <= c.PROBABILITY_START_MOVING

\* a paused UE whose rand() is below PROBABILITY_START_MOVING starts moving
Resumes(c, self, d) == self.is_paused /\ d.u < c.PROBABILITY_START_MOVING

\* the draws of one move(): none while moving; the rand() of the pause test and,
\* when it starts moving, the two rand() of the new destination
MoveDrawSet(c, self, rich) ==
    IF ~self.is_paused THEN {NoMoveDraw}
    ELSE {[u |-> u, dr |-> 0, da |-> 0] :
              u \in {x \in ResumeSamples(rich, c.PROBABILITY_START_MOVING) : x >= c.PROBABILITY_START_MOVING}}
         \cup
         {d \in [u : {x \in ResumeSamples(rich, c.PROBABILITY_START_MOVING) :
                          x < c.PROBABILITY_START_MOVING},
                 dr : RadiusSamples(rich), da : AngleSamples(rich)] :
              ExactMotion(self.position, get_random_point_in_cell(c, d.dr, d.da),
                          self.speed * c.TIME_STEP_S)}

MoveDrawList(c, self, d) ==
    IF ~self.is_paused THEN <<>>
    ELSE <<Draw("rand", self.device_id \o ".move.pause", d.u)>>
         \o (IF Resumes(c, self, d)
             THEN <<Draw("rand", self.device_id \o ".move.destination.radius", d.dr),
                    Draw("rand", self.device_id \o ".move.destination.angle", d.da)>>
             ELSE <<>>)

\* move() with the unit vector subtracted from the position
move_away(c, self, d) ==
    IF self.is_paused /\ ~Resumes(c, self, d) THEN self
    ELSE LET destination == IF self.is_paused
                            THEN get_random_point_in_cell(c, d.dr, d.da)
                            ELSE self.destination
             dt == c.TIME_STEP_S
             direction_vector == <<destination[1] - self.position[1],
                                   destination[2] - self.position[2]>>
             distance_to_dest == NormM(direction_vector)
             step_distance == self.speed * dt
         IN  IF step_distance >= distance_to_dest
             THEN [self EXCEPT !.position = destination,
                               !.destination = destination,
                               !.is_paused = TRUE]
             ELSE [self EXCEPT
                     !.position = <<self.position[1]
                                      - (direction_vector[1] * step_distance) \div distance_to_dest,
                                    self.position[2]
                                      - (direction_vector[2] * step_distance) \div distance_to_dest>>,
                     !.destination = destination,
                     !.is_paused = FALSE]

\* move() that snaps only when it overshoots
move_strict_snap(c, self, d) ==
    IF self.is_paused /\ ~Resumes(c, self, d) THEN self
    ELSE LET destination == IF self.is_paused
                            THEN get_random_point_in_cell(c, d.dr, d.da)
                            ELSE self.destination
             dt == c.TIME_STEP_S
             direction_vector == <<destination[1] - self.position[1],
                                   destination[2] - self.position[2]>>
             distance_to_dest == NormM(direction_vector)
             step_distance == self.speed * dt
         IN  IF step_distance > distance_to_dest
             THEN [self EXCEPT !.position = destination,
                               !.destination = destination,
                               !.is_paused = TRUE]
             ELSE [self EXCEPT
                     !.position = <<self.position[1]
                                      + (direction_vector[1] * step_distance) \div distance_to_dest,
                                    self.position[2]
                                      + (direction_vector[2] * step_distance) \div distance_to_dest>>,
                     !.destination = destination,
                     !.is_paused = FALSE]

\* move() that sets the speed of a UE that arrives to 0
move_stopping(c, self, d) ==
    IF self.is_paused /\ ~Resumes(c, self, d) THEN self
    ELSE LET destination == IF self.is_paused
                            THEN get_random_point_in_cell(c, d.dr, d.da)
                            ELSE self.destination
             dt == c.TIME_STEP_S
             direction_vector == <<destination[1] - self.position[1],
                                   destination[2] - self.position[2]>>
             distance_to_dest == NormM(direction_vector)
             step_distance == self.speed * dt
         IN  IF step_distance >= distance_to_dest
             THEN [self EXCEPT !.position = destination,
                               !.destination = destination,
                               !.is_paused = TRUE,
                               !.speed = 0]
             ELSE [self EXCEPT
                     !.position = <<self.position[1]
                                      + (direction_vector[1] * step_distance) \div distance_to_dest,
                                    self.position[2]
                                      + (direction_vector[2] * step_distance) \div distance_to_dest>>,
                     !.destination = destination,
                     !.is_paused = FALSE]

\* UserEquipment.move
move(c, self, d) ==
    IF self.is_paused /\ ~Resumes(c, self, d) THEN self
    ELSE LET destination == IF self.is_paused
                            THEN get_random_point_in_cell(c, d.dr, d.da)
                            ELSE self.destination
             dt == c.TIME_STEP_S
             direction_vector == <<destination[1] - self.position[1],
                                   destination[2] - self.position[2]>>
             distance_to_dest == NormM(direction_vector)
             step_distance == self.speed * dt
         IN  IF step_distance >= distance_to_dest
             THEN [self EXCEPT !.position = destination,
                               !.destination = destination,
                               !.is_paused = TRUE]
             ELSE [self EXCEPT
                     !.position = <<self.position[1]
                                      + (direction_vector[1] * step_distance) \div distance_to_dest,
                                    self.position[2]
                                      + (direction_vector[2] * step_distance) \div distance_to_dest>>,
                     !.destination = destination,
                     !.is_paused = FALSE]

(***************************************************************************)
(* simulator_paper/entities.py: the UserEquipment of the paper replication *)
(* takes no speed class; its speed is PaperConfig.SPEED.                   *)
(***************************************************************************)

\* the draws of a paper UserEquipment.__init__ whose position the caller replaces
paper_UEDrawSetRaw(c, rich) ==
    [pr : RadiusSamples(FALSE), pa : AngleSamples(FALSE),
     dr : RadiusSamples(rich), da : AngleSamples(rich)]

\* the draws of the paper's UserEquipment.__init__: position and destination
paper_UEDrawSet(c, rich) ==
    {d \in [pr : RadiusSamples(rich), pa : AngleSamples(rich),
            dr : RadiusSamples(rich), da : AngleSamples(rich)] :
        ExactMotion(get_random_point_in_cell(c, d.pr, d.pa),
                    get_random_point_in_cell(c, d.dr, d.da),
                    c.SPEED * c.TIME_STEP_S)}

paper_UEDrawList(who, d) ==
    <<Draw("rand", who \o ".position.radius", d.pr),
      Draw("rand", who \o ".position.angle", d.pa),
      Draw("rand", who \o ".destination.radius", d.dr),
      Draw("rand", who \o ".destination.angle", d.da)>>

\* the paper's UserEquipment.__init__
paper_UserEquipment(c, device_id, d) == [
    device_id |-> device_id,
    position |-> get_random_point_in_cell(c, d.pr, d.pa),
    destination |-> get_random_point_in_cell(c, d.dr, d.da),
    is_paused |-> FALSE,
    speed |-> c.SPEED,
    tx_power_dbm |-> c.TX_POWER_D2D_DBM]

\* the paper's UserEquipment.move: the same random waypoint
paper_move(c, self, d) == move(c, self, d)

(***************************************************************************)
(* simulator/channel_model.py and simulator_paper/channel_model.py.        *)
(* Distances come in decimetres, path losses and powers in dBm come in cdB.*)
(***************************************************************************)

\* the cellular path loss with the floor of the D2D one, 0.1 m
calculate_path_loss_cellular_floor_d2d(c, distance_dm) ==
    LET distance_m == Max(distance_dm, 1)
        log_km == Log10Milli(FromInt(distance_m)) - 4000
    IN  c.PATH_LOSS_CELLULAR_A + (c.PATH_LOSS_CELLULAR_B * log_km) \div 1000

\* ChannelModel.calculate_path_loss_cellular (ChannelModelPaper's is the same text)
calculate_path_loss_cellular(c, distance_dm) ==
    LET distance_m == Max(distance_dm, 10)
        \* 1000 * log10(distance_km), the distance being in dm
        log_km == Log10Milli(FromInt(distance_m)) - 4000
    IN  c.PATH_LOSS_CELLULAR_A + (c.PATH_LOSS_CELLULAR_B * log_km) \div 1000

\* ChannelModel.calculate_path_loss_d2d (ChannelModelPaper's is the same text)
calculate_path_loss_d2d(c, distance_dm) ==
    LET distance_m == Max(distance_dm, 1)
        log_km == Log10Milli(FromInt(distance_m)) - 4000
        freq_mhz == c.CARRIER_FREQ_MHZ
    IN  c.PATH_LOSS_D2D_A
          + (c.PATH_LOSS_D2D_B_FREQ * Log10Milli(FromInt(freq_mhz))) \div 1000
          + (c.PATH_LOSS_D2D_C_DIST * log_km) \div 1000

\* the draws of one ChannelModel.compute_received_power: the sigma of the
\* shadowing (drawn only with USE_RANDOM_SHADOWING), its randn(), and the
\* exponential of the fading (drawn only with USE_RAYLEIGH_FADING)
ChannelDrawSet(c, rich) ==
    [sigma : IF c.USE_RANDOM_SHADOWING
             THEN SigmaSamples(rich, c.SHADOWING_SIGMA_MIN, c.SHADOWING_SIGMA_MAX)
             ELSE {c.SHADOWING_SIGMA_DB},
     z : RandnSamples(rich),
     g : IF c.USE_RAYLEIGH_FADING THEN ExponentialSamples(rich) ELSE {1000}]

\* the numpy.random calls of ChannelModel.get_shadowing
ShadowingDrawList(c, link, d) ==
    (IF c.USE_RANDOM_SHADOWING
     THEN <<Draw("uniform", link \o ".shadowing.sigma", d.sigma)>> ELSE <<>>)
    \o <<Draw("randn", link \o ".shadowing", d.z)>>

\* a fading gain that is drawn whatever USE_RAYLEIGH_FADING says
FadingDrawList_always(c, link, d) == <<Draw("exponential", link \o ".fading", d.g)>>

\* the numpy.random calls of ChannelModel.get_rayleigh_fading_gain
FadingDrawList(c, link, d) ==
    IF ~c.USE_RAYLEIGH_FADING THEN <<>>
    ELSE <<Draw("exponential", link \o ".fading", d.g)>>

\* ChannelModel.get_shadowing: sigma * np.random.randn(), in cdB
get_shadowing(c, d) ==
    LET sigma == IF c.USE_RANDOM_SHADOWING THEN d.sigma ELSE c.SHADOWING_SIGMA_DB
    IN  (sigma * d.z) \div 100

\* ChannelModel.get_rayleigh_fading_gain
get_rayleigh_fading_gain(c, d) ==
    IF ~c.USE_RAYLEIGH_FADING THEN One ELSE Norm(d.g, 0)

\* a received power that takes its fading gain before its shadowing
ChannelDrawList_fading_first(c, link, d) ==
    FadingDrawList(c, link, d) \o ShadowingDrawList(c, link, d)

\* the numpy.random calls of ChannelModel.compute_received_power, in order
ChannelDrawList(c, link, d) == ShadowingDrawList(c, link, d) \o FadingDrawList(c, link, d)

\* ChannelModel.compute_received_power, in Watts
compute_received_power(c, tx_power_dbm, distance_dm, is_d2d, d) ==
    LET path_loss_db == IF is_d2d THEN calculate_path_loss_d2d(c, distance_dm)
                        ELSE calculate_path_loss_cellular(c, distance_dm)
        shadowing_db == get_shadowing(c, d)
        rx_power_dbm == tx_power_dbm - path_loss_db + shadowing_db
        rx_power_watts == Pow10Milli(rx_power_dbm - 3000)
        fading_gain == get_rayleigh_fading_gain(c, d)
    IN  Mul(rx_power_watts, fading_gain)

\* a paper channel that draws a shadowing value, to add nothing of it
PaperChannelDrawList_shadowed(c, link) == <<Draw("randn", link \o ".shadowing", 0)>>

\* the numpy.random calls of ChannelModelPaper.compute_received_power: none
PaperChannelDrawList(c, link) == <<>>

\* ChannelModelPaper.compute_received_power, in Watts
paper_compute_received_power(c, tx_power_dbm, distance_dm, is_d2d) ==
    LET path_loss_db == IF is_d2d THEN calculate_path_loss_d2d(c, distance_dm)
                        ELSE calculate_path_loss_cellular(c, distance_dm)
        rx_power_dbm == tx_power_dbm - path_loss_db
    IN  Pow10Milli(rx_power_dbm - 3000)

(***************************************************************************)
(* simulator/environment.py: D2DEnvironment.                               *)
(* An environment object is the record of its fields.                      *)
(***************************************************************************)

\* all sequences whose i-th element is taken from the i-th set
RECURSIVE SeqProduct(_)
SeqProduct(sets) ==
    IF sets = <<>> THEN {<<>>}
    ELSE {<<h>> \o t : h \in Head(sets), t \in SeqProduct(Tail(sets))}

RECURSIVE Flatten(_)
Flatten(lists) == IF lists = <<>> THEN <<>> ELSE Head(lists) \o Flatten(Tail(lists))

\* f"Int_{i}" for the i-th element of the list, counted from 1
InterfererId(i) == "Int_" \o ToString(i - 1)

\* the fields __init__ assigns before it calls reset()
Blank(c) == [bs |-> BaseStation(c), d2d_tx |-> None, d2d_rx |-> None,
             interferers |-> <<>>, time_step |-> 0]

\* the receiver position reset() computes from the transmitter's
\* the receiver position computed without the transmitter's
RxOverride_from_origin(tx_position, angle, radius) ==
    <<radius * Cos(angle), radius * Sin(angle)>>

RxOverride(tx_position, angle, radius) ==
    <<tx_position[1] + radius * Cos(angle), tx_position[2] + radius * Sin(angle)>>

\* the draws of one reset()
ResetDrawSet(c) ==
    LET all == UNION {
            {[tx |-> t, rx |-> r, angle |-> a, radius |-> s, n |-> n, ints |-> k] :
                t \in UEDrawSet(c, "mixed", TRUE),
                r \in UEDrawSetRaw(c, "mixed", RichRx),
                a \in BearingSamples,
                s \in SeparationSamples(c.D2D_MAX_DIST_M),
                k \in SeqProduct([i \in 1..n |-> UEDrawSet(c, "vehicle", Rich(i - 1))])} :
            n \in PoolSamples}
    IN  {d \in all :
            ExactMotion(RxOverride(get_random_point_in_cell(c, d.tx.pr, d.tx.pa),
                                   d.angle, d.radius),
                        get_random_point_in_cell(c, d.rx.dr, d.rx.da),
                        d.rx.sp * c.TIME_STEP_S)}

\* the numpy.random calls of one reset(), in order
ResetDrawList(c, d) ==
    UEDrawList("Target_Tx", d.tx) \o UEDrawList("Target_Rx", d.rx)
    \o <<Draw("uniform", "reset.angle", d.angle),
         Draw("uniform", "reset.radius", d.radius),
         Draw("randint", "reset.num_interferers", d.n)>>
    \o Flatten([i \in 1..d.n |-> UEDrawList(InterfererId(i), d.ints[i])])

\* a reset() that leaves the step counter as it is
reset_keeping_time(c, self, d) ==
    LET tx == UserEquipment(c, "Target_Tx", d.tx)
        rx == UserEquipment(c, "Target_Rx", d.rx)
        rx_pos == RxOverride(tx.position, d.angle, d.radius)
        num_interferers == d.n
    IN  [self EXCEPT
            !.d2d_tx = tx,
            !.d2d_rx = [rx EXCEPT !.position = rx_pos],
            !.interferers = [i \in 1..num_interferers |->
                                UserEquipment(c, InterfererId(i), d.ints[i])]]

\* D2DEnvironment.reset
reset(c, self, d) ==
    LET tx == UserEquipment(c, "Target_Tx", d.tx)
        rx == UserEquipment(c, "Target_Rx", d.rx)
        rx_pos == RxOverride(tx.position, d.angle, d.radius)
        num_interferers == d.n
    IN  [self EXCEPT
            !.time_step = 0,
            !.d2d_tx = tx,
            !.d2d_rx = [rx EXCEPT !.position = rx_pos],
            !.interferers = [i \in 1..num_interferers |->
                                UserEquipment(c, InterfererId(i), d.ints[i])]]

\* a constructor that leaves reset() to the caller
D2DEnvironment_without_reset(c, d) == Blank(c)

\* D2DEnvironment.__init__
D2DEnvironment(c, d) == reset(c, Blank(c), d)

\* the draws of the move() calls of one step(), for the two step() methods
MovesDrawSet(c, self) ==
    [tx : MoveDrawSet(c, self.d2d_tx, TRUE),
     rx : MoveDrawSet(c, self.d2d_rx, RichRx),
     ints : SeqProduct([i \in 1..Len(self.interferers) |->
                           MoveDrawSet(c, self.interferers[i], Rich(i - 1))])]

MovesDrawList(c, self, d) ==
    MoveDrawList(c, self.d2d_tx, d.tx) \o MoveDrawList(c, self.d2d_rx, d.rx)
    \o Flatten([i \in 1..Len(self.interferers) |->
                   MoveDrawList(c, self.interferers[i], d.ints[i])])

\* the draws of one step(): of the moves, then of the received powers
StepDrawSet(c, self) ==
    IF self.d2d_tx = None \/ self.d2d_rx = None THEN {None}
    ELSE {[moves |-> m, d2d |-> a, cell |-> b, ich |-> k] :
             m \in MovesDrawSet(c, self),
             a \in ChannelDrawSet(c, TRUE),
             b \in ChannelDrawSet(c, FALSE),
             k \in SeqProduct([i \in 1..Len(self.interferers) |->
                                  ChannelDrawSet(c, FALSE)])}

StepDrawList(c, self, d) ==
    IF d = None THEN <<>>
    ELSE MovesDrawList(c, self, d.moves)
         \o ChannelDrawList(c, "d2d", d.d2d) \o ChannelDrawList(c, "cell", d.cell)
         \o Flatten([i \in 1..Len(self.interferers) |->
                        ChannelDrawList(c, InterfererId(i), d.ich[i])])

\* the move loops of a step() that takes the interferers that arrived out of
\* the pool
MoveEntities_dropping(c, self, d) ==
    [self EXCEPT
        !.time_step = self.time_step + 1,
        !.d2d_tx = move(c, self.d2d_tx, d.tx),
        !.d2d_rx = move(c, self.d2d_rx, d.rx),
        !.interferers = SelectSeq([i \in 1..Len(self.interferers) |->
                                      move(c, self.interferers[i], d.ints[i])],
                                  LAMBDA ue : ~ue.is_paused)]

\* step(): the three move loops and the increment of time_step
MoveEntities(c, self, d) ==
    [self EXCEPT
        !.time_step = self.time_step + 1,
        !.d2d_tx = move(c, self.d2d_tx, d.tx),
        !.d2d_rx = move(c, self.d2d_rx, d.rx),
        !.interferers = [i \in 1..Len(self.interferers) |->
                            move(c, self.interferers[i], d.ints[i])]]

\* 10 * np.log10(x) of a ratio, in cdB; np.log10(0.0) is -inf
ToDb(x) == Log10Milli(x)

\* 10 * np.log10(watts * 1000), in cdB
ToDbm(watts) == IF watts.m = 0 THEN NegInf ELSE Log10Milli(watts) + 3000

\* (BANDWIDTH_HZ * np.log2(1 + sinr)) / 1e6, in milli-Mbps
Throughput(c, sinr_linear) ==
    (c.BANDWIDTH_HZ \div 1000000) * Log2Milli(Add(One, sinr_linear))

\* a label that gives a tie to the cellular mode
optimal_mode_strict(tput_d2d_mbps, tput_cell_mbps) ==
    IF tput_d2d_mbps > tput_cell_mbps THEN "D2D" ELSE "Cellular"

\* the label of a step
optimal_mode(tput_d2d_mbps, tput_cell_mbps) ==
    IF tput_d2d_mbps >= tput_cell_mbps THEN "D2D" ELSE "Cellular"

\* an interference loop that leaves the load factor out
RECURSIVE total_interference_unloaded(_, _, _, _)
total_interference_unloaded(c, self, d, i) ==
    IF i = 0 THEN Zero
    ELSE Add(total_interference_unloaded(c, self, d, i - 1),
             compute_received_power(c, self.interferers[i].tx_power_dbm,
                                    get_distance_to(self.interferers[i], self.d2d_rx),
                                    TRUE, d[i]))

\* step(): the interference loop over the first i interferers; d holds the
\* draws of their received powers
RECURSIVE total_interference_watts(_, _, _, _)
total_interference_watts(c, self, d, i) ==
    IF i = 0 THEN Zero
    ELSE LET rho == c.INTERFERENCE_LOAD_FACTOR
             interferer == self.interferers[i]
             dist_int_to_rx == get_distance_to(interferer, self.d2d_rx)
             raw_interference_watts ==
                 compute_received_power(c, interferer.tx_power_dbm, dist_int_to_rx,
                                        TRUE, d[i])
         IN  Add(total_interference_watts(c, self, d, i - 1),
                 Mul(rho, raw_interference_watts))

\* step() of D2DEnvironment: distances, received powers and interference of
\* the entities as self holds them
measure(c, self, d) ==
    LET dist_d2d == get_distance_to(self.d2d_tx, self.d2d_rx)
        dist_cellular == get_distance_to(self.bs, self.d2d_rx)
    IN  [dist_d2d |-> dist_d2d,
         dist_cellular |-> dist_cellular,
         s_d2d_watts |-> compute_received_power(c, self.d2d_tx.tx_power_dbm,
                                                dist_d2d, TRUE, d.d2d),
         s_cellular_watts |-> compute_received_power(c, self.bs.tx_power_dbm,
                                                     dist_cellular, FALSE, d.cell),
         total_interference_watts |->
             total_interference_watts(c, self, d.ich, Len(self.interferers))]

\* step() of both environments from the noise power to the returned dict;
\* m holds the distances and powers computed before
pack(c, self, m) ==
    LET noise_watts == get_noise_power_watts(c)
        sinr_d2d_linear == Div(m.s_d2d_watts, Add(m.total_interference_watts, noise_watts))
        sinr_d2d_db == ToDb(sinr_d2d_linear)
        sinr_cell_linear == Div(m.s_cellular_watts,
                                Add(m.total_interference_watts, noise_watts))
        sinr_cell_db == ToDb(sinr_cell_linear)
        tput_d2d_mbps == Throughput(c, sinr_d2d_linear)
        tput_cell_mbps == Throughput(c, sinr_cell_linear)
    IN  [timestamp |-> self.time_step,
         episode_id |-> 0,
         tx_pos_x |-> self.d2d_tx.position[1],
         tx_pos_y |-> self.d2d_tx.position[2],
         rx_pos_x |-> self.d2d_rx.position[1],
         rx_pos_y |-> self.d2d_rx.position[2],
         distance_tx_rx |-> m.dist_d2d,
         distance_bs_rx |-> m.dist_cellular,
         tx_speed_mps |-> self.d2d_tx.speed,
         rx_speed_mps |-> self.d2d_rx.speed,
         tx_power_d2d_dbm |-> self.d2d_tx.tx_power_dbm,
         tx_power_bs_dbm |-> self.bs.tx_power_dbm,
         rx_power_d2d_dbm |-> ToDbm(m.s_d2d_watts),
         rx_power_cell_dbm |-> ToDbm(m.s_cellular_watts),
         interference_dbm |-> ToDbm(m.total_interference_watts),
         noise_dbm |-> ToDbm(noise_watts),
         sinr_d2d_db |-> sinr_d2d_db,
         sinr_cell_db |-> sinr_cell_db,
         throughput_d2d_mbps |-> tput_d2d_mbps,
         throughput_cell_mbps |-> tput_cell_mbps,
         optimal_mode |-> optimal_mode(tput_d2d_mbps, tput_cell_mbps)]

\* the local variables of a step() that the returned dict does not hold, with
\* the positions the entities had when step() was called
Locals(c, before, m, d) ==
    [s_d2d_watts |-> m.s_d2d_watts,
     s_cellular_watts |-> m.s_cellular_watts,
     total_interference_watts |-> m.total_interference_watts,
     noise_watts |-> get_noise_power_watts(c),
     sinr_d2d_linear |-> Div(m.s_d2d_watts,
                             Add(m.total_interference_watts, get_noise_power_watts(c))),
     sinr_cell_linear |-> Div(m.s_cellular_watts,
                              Add(m.total_interference_watts, get_noise_power_watts(c))),
     tx_before |-> before.d2d_tx.position,
     rx_before |-> before.d2d_rx.position,
     ints_before |-> [i \in 1..Len(before.interferers) |-> before.interferers[i].position],
     d |-> d]

\* what step() leaves when an assert fails
Asserted(self) == [failure |-> "AssertionError", self |-> self, state |-> None, work |-> None]

\* a step() that evaluates the channel before it moves the entities
step_before_moving(c, self, d) ==
    IF self.d2d_tx = None \/ self.d2d_rx = None THEN Asserted(self)
    ELSE LET moved == MoveEntities(c, self, d.moves)
             m == measure(c, [self EXCEPT !.time_step = moved.time_step], d)
         IN  [failure |-> "none", self |-> moved,
              state |-> pack(c, [self EXCEPT !.time_step = moved.time_step], m),
              work |-> Locals(c, self, m, d)]

\* D2DEnvironment.step
step(c, self, d) ==
    IF self.d2d_tx = None \/ self.d2d_rx = None THEN Asserted(self)
    ELSE LET moved == MoveEntities(c, self, d.moves)
             m == measure(c, moved, d)
         IN  [failure |-> "none", self |-> moved,
              state |-> pack(c, moved, m),
              work |-> Locals(c, self, m, d)]

(***************************************************************************)
(* simulator_paper/environment.py: D2DEnvironmentPaper.                    *)
(***************************************************************************)

\* the draws of one reset() of the paper: the two entities, the second
\* position of the receiver (or, oa), the NUM_INTERFERER interferers
PaperResetDrawSet(c) ==
    LET all == {[tx |-> t, rx |-> r, or |-> o, oa |-> a, ints |-> k] :
                   t \in paper_UEDrawSet(c, TRUE),
                   r \in paper_UEDrawSetRaw(c, RichRx),
                   o \in RadiusSamples(RichRx),
                   a \in AngleSamples(RichRx),
                   k \in SeqProduct([i \in 1..c.NUM_INTERFERER |->
                                        paper_UEDrawSet(c, Rich(i - 1))])}
    IN  {d \in all :
            ExactMotion(get_random_point_in_cell(c, d.or, d.oa),
                        get_random_point_in_cell(c, d.rx.dr, d.rx.da),
                        c.SPEED * c.TIME_STEP_S)}

PaperResetDrawList(c, d) ==
    paper_UEDrawList("Target_Tx", d.tx) \o paper_UEDrawList("Target_Rx", d.rx)
    \o <<Draw("rand", "reset.position.radius", d.or),
         Draw("rand", "reset.position.angle", d.oa)>>
    \o Flatten([i \in 1..c.NUM_INTERFERER |-> paper_UEDrawList(InterfererId(i), d.ints[i])])

\* D2DEnvironmentPaper.reset
paper_reset(c, self, d) ==
    LET tx == paper_UserEquipment(c, "Target_Tx", d.tx)
        rx == paper_UserEquipment(c, "Target_Rx", d.rx)
        num_interferers == c.NUM_INTERFERER
    IN  [self EXCEPT
            !.time_step = 0,
            !.d2d_tx = tx,
            !.d2d_rx = [rx EXCEPT !.position = get_random_point_in_cell(c, d.or, d.oa)],
            !.interferers = [i \in 1..num_interferers |->
                                paper_UserEquipment(c, InterfererId(i), d.ints[i])]]

\* D2DEnvironmentPaper.__init__
D2DEnvironmentPaper(c, d) == paper_reset(c, Blank(c), d)

\* the draws of one step() of the paper: those of the moves
PaperStepDrawSet(c, self) ==
    IF self.d2d_tx = None \/ self.d2d_rx = None THEN {None}
    ELSE {[moves |-> m] : m \in MovesDrawSet(c, self)}

PaperStepDrawList(c, self, d) ==
    IF d = None THEN <<>> ELSE MovesDrawList(c, self, d.moves)

\* step() of the paper: the three move loops and the increment of time_step
PaperMoveEntities(c, self, d) ==
    [self EXCEPT
        !.time_step = self.time_step + 1,
        !.d2d_tx = paper_move(c, self.d2d_tx, d.tx),
        !.d2d_rx = paper_move(c, self.d2d_rx, d.rx),
        !.interferers = [i \in 1..Len(self.interferers) |->
                            paper_move(c, self.interferers[i], d.ints[i])]]

\* step() of the paper: the interference loop over the first i interferers
RECURSIVE paper_total_interference_watts(_, _, _)
paper_total_interference_watts(c, self, i) ==
    IF i = 0 THEN Zero
    ELSE LET rho == c.INTERFERENCE_LOAD_FACTOR
             interferer == self.interferers[i]
             dist_int_to_rx == get_distance_to(interferer, self.d2d_rx)
             raw_interference_watts ==
                 paper_compute_received_power(c, interferer.tx_power_dbm,
                                              dist_int_to_rx, TRUE)
         IN  Add(paper_total_interference_watts(c, self, i - 1),
                 Mul(rho, raw_interference_watts))

\* step() of D2DEnvironmentPaper: distances, received powers and interference
paper_measure(c, self) ==
    LET dist_d2d == get_distance_to(self.d2d_tx, self.d2d_rx)
        dist_cellular == get_distance_to(self.bs, self.d2d_rx)
    IN  [dist_d2d |-> dist_d2d,
         dist_cellular |-> dist_cellular,
         s_d2d_watts |-> paper_compute_received_power(c, self.d2d_tx.tx_power_dbm,
                                                      dist_d2d, TRUE),
         s_cellular_watts |-> paper_compute_received_power(c, self.bs.tx_power_dbm,
                                                           dist_cellular, FALSE),
         total_interference_watts |->
             paper_total_interference_watts(c, self, Len(self.interferers))]

\* D2DEnvironmentPaper.step
paper_step(c, self, d) ==
    IF self.d2d_tx = None \/ self.d2d_rx = None THEN Asserted(self)
    ELSE LET moved == PaperMoveEntities(c, self, d.moves)
             m == paper_measure(c, moved)
         IN  [failure |-> "none", self |-> moved,
              state |-> pack(c, moved, m),
              work |-> Locals(c, self, m, d)]

(***************************************************************************)
(* The global numpy.random stream.                                         *)
(***************************************************************************)

\* the stream of a process that has not called np.random.seed
Unseeded == [seeded |-> FALSE, pos |-> 0]

\* a seed call that leaves the stream as it was
seed_ignored(r, s) == r

\* np.random.seed(s): the stream of seed s, at its beginning
seed(r, s) == [seeded |-> TRUE, pos |-> 0]

\* the values a handler draws are those of the stream: where the seeded stream
\* is known already (the tape), they are the known ones
Replays(values) ==
    rng.seeded => \A i \in 1..Len(values) :
                      rng.pos + i <= Len(tape) => tape[rng.pos + i] = values[i]

\* the stream after a handler drew the values
Consume(values) ==
    /\ rng' = IF rng.seeded THEN [rng EXCEPT !.pos = rng.pos + Len(values)] ELSE rng
    /\ tape' = IF rng.seeded /\ rng.pos + Len(values) > Len(tape)
               THEN SubSeq(tape, 1, rng.pos) \o values
               ELSE tape

(***************************************************************************)
(* The caller of an environment: construct, then reset() and step() in any *)
(* order, at most MaxSteps steps to an episode.                            *)
(***************************************************************************)

\* the environment object, from the variables that hold its fields
Self == [bs |-> BaseStation(cfg), d2d_tx |-> d2d_tx, d2d_rx |-> d2d_rx,
         interferers |-> interferers, time_step |-> time_step]

\* the fields of the environment become those of env
Becomes(env) ==
    /\ d2d_tx' = env.d2d_tx
    /\ d2d_rx' = env.d2d_rx
    /\ interferers' = env.interferers
    /\ time_step' = env.time_step

\* the configurations the model runs
LoadFactors == {Zero, One}

ProposedConfigs ==
    IF sampling = "channel"
    THEN {[SimulationConfig EXCEPT !.INTERFERENCE_LOAD_FACTOR = rho,
                                   !.USE_RAYLEIGH_FADING = f,
                                   !.USE_RANDOM_SHADOWING = r] :
             rho \in LoadFactors, f \in BOOLEAN, r \in BOOLEAN}
    ELSE {SimulationConfig, [SimulationConfig EXCEPT !.CELL_RADIUS_M = 0]}

PaperConfigs ==
    IF sampling = "channel"
    THEN {PaperConfig, [PaperConfig EXCEPT !.INTERFERENCE_LOAD_FACTOR = Zero]}
    ELSE {PaperConfig}

NoGenerator ==
    /\ all_records = <<>>
    /\ episode = 0
    /\ run = 0
    /\ first_run = <<>>

Init ==
    /\ sampling \in {"geometry", "channel"}
    /\ cfg \in ProposedConfigs \cup PaperConfigs
    /\ pc = "new"
    /\ d2d_tx = None
    /\ d2d_rx = None
    /\ interferers = <<>>
    /\ time_step = 0
    /\ state = None
    /\ work = None
    /\ draws = <<>>
    /\ rng = Unseeded
    /\ tape = <<>>
    /\ failure = "none"
    /\ call = None
    /\ NoGenerator

\* a handler drew the list dl of numpy.random calls from the stream
Drawn(dl, values) ==
    /\ Replays(values)
    /\ draws' = Tags(dl)
    /\ Consume(values)

\* a constructor or a reset() that drew dl leaves the environment env
Resets(env, dl) ==
    /\ Becomes(env)
    /\ Drawn(dl, Values(dl))

\* a step() that drew dl returns r
Steps(r, dl) ==
    /\ Becomes(r.self)
    /\ state' = r.state
    /\ work' = r.work
    /\ failure' = r.failure
    /\ pc' = IF r.failure = "none" THEN "ready" ELSE "failed"
    /\ Drawn(dl, Values(dl))

\* env = D2DEnvironment()
Construct ==
    /\ pc = "new"
    /\ cfg.kind = "proposed"
    /\ \E d \in ResetDrawSet(cfg) : Resets(D2DEnvironment(cfg, d), ResetDrawList(cfg, d))
    /\ pc' = "ready"
    /\ UNCHANGED <<cfg, sampling, state, work, all_records, episode, run, first_run,
                   failure, call>>

\* env.reset(); reset() overwrites every field of the environment, so the state
\* it leaves does not depend on when it is called: the caller calls it at the
\* end of an episode
Reset ==
    /\ pc = "ready"
    /\ cfg.kind = "proposed"
    /\ time_step = MaxSteps
    /\ \E d \in ResetDrawSet(cfg) : Resets(reset(cfg, Self, d), ResetDrawList(cfg, d))
    /\ state' = None
    /\ work' = None
    /\ UNCHANGED <<cfg, sampling, pc, all_records, episode, run, first_run, failure, call>>

\* state = env.step()
Step ==
    /\ pc = "ready"
    /\ cfg.kind = "proposed"
    /\ time_step < MaxSteps
    /\ \E d \in StepDrawSet(cfg, Self) :
          Steps(step(cfg, Self, d), StepDrawList(cfg, Self, d))
    /\ UNCHANGED <<cfg, sampling, all_records, episode, run, first_run, call>>

\* env = D2DEnvironmentPaper()
ConstructPaper ==
    /\ pc = "new"
    /\ cfg.kind = "paper"
    /\ \E d \in PaperResetDrawSet(cfg) :
          Resets(D2DEnvironmentPaper(cfg, d), PaperResetDrawList(cfg, d))
    /\ pc' = "ready"
    /\ UNCHANGED <<cfg, sampling, state, work, all_records, episode, run, first_run,
                   failure, call>>

\* env.reset() of the paper
ResetPaper ==
    /\ pc = "ready"
    /\ cfg.kind = "paper"
    /\ time_step = MaxSteps
    /\ \E d \in PaperResetDrawSet(cfg) :
          Resets(paper_reset(cfg, Self, d), PaperResetDrawList(cfg, d))
    /\ state' = None
    /\ work' = None
    /\ UNCHANGED <<cfg, sampling, pc, all_records, episode, run, first_run, failure, call>>

\* state = env.step() of the paper
StepPaper ==
    /\ pc = "ready"
    /\ cfg.kind = "paper"
    /\ time_step < MaxSteps
    /\ \E d \in PaperStepDrawSet(cfg, Self) :
          Steps(paper_step(cfg, Self, d), PaperStepDrawList(cfg, Self, d))
    /\ UNCHANGED <<cfg, sampling, all_records, episode, run, first_run, call>>

Next ==
    \/ Construct
    \/ Reset
    \/ Step
    \/ ConstructPaper
    \/ ResetPaper
    \/ StepPaper

Spec == Init /\ [][Next]_vars

(***************************************************************************)
(* simulator/run_simulation.py: generate_dataset, and                      *)
(* scripts/run_paper_simulation.py: generate_paper_dataset.  The generator *)
(* runs twice, each run in a process of its own.                           *)
(***************************************************************************)

InitGen ==
    /\ sampling = "generator"
    /\ cfg \in {SimulationConfig, PaperConfig}
    /\ pc = "start"
    /\ d2d_tx = None
    /\ d2d_rx = None
    /\ interferers = <<>>
    /\ time_step = 0
    /\ state = None
    /\ work = None
    /\ draws = <<>>
    /\ rng = Unseeded
    /\ tape = <<>>
    /\ failure = "none"
    /\ call = None
    /\ all_records = <<>>
    /\ episode = 0
    /\ run = 1
    /\ first_run = <<>>

\* np.random.seed(SEED)
GenSeed ==
    /\ pc = "start"
    /\ rng' = seed(rng, cfg.SEED)
    /\ pc' = "construct"
    /\ UNCHANGED <<cfg, sampling, d2d_tx, d2d_rx, interferers, time_step, state, work,
                   draws, tape, all_records, episode, run, first_run, failure, call>>

\* the loops of the generator go on at the next episode, or are over
AfterConstruct == IF cfg.NUM_EPISODES > 0 THEN "reset" ELSE "done"

\* env = D2DEnvironment(); all_records = []
GenConstruct ==
    /\ pc = "construct"
    /\ cfg.kind = "proposed"
    /\ \E d \in ResetDrawSet(cfg) : Resets(D2DEnvironment(cfg, d), ResetDrawList(cfg, d))
    /\ all_records' = <<>>
    /\ episode' = 0
    /\ pc' = AfterConstruct
    /\ UNCHANGED <<cfg, sampling, state, work, run, first_run, failure, call>>

\* env = D2DEnvironmentPaper(); all_records = []
GenConstructPaper ==
    /\ pc = "construct"
    /\ cfg.kind = "paper"
    /\ \E d \in PaperResetDrawSet(cfg) :
          Resets(D2DEnvironmentPaper(cfg, d), PaperResetDrawList(cfg, d))
    /\ all_records' = <<>>
    /\ episode' = 0
    /\ pc' = AfterConstruct
    /\ UNCHANGED <<cfg, sampling, state, work, run, first_run, failure, call>>

\* the head of the episode loop and env.reset()
GenReset ==
    /\ pc = "reset"
    /\ cfg.kind = "proposed"
    /\ \E d \in ResetDrawSet(cfg) : Resets(reset(cfg, Self, d), ResetDrawList(cfg, d))
    /\ pc' = "step"
    /\ UNCHANGED <<cfg, sampling, state, work, all_records, episode, run, first_run,
                   failure, call>>

GenResetPaper ==
    /\ pc = "reset"
    /\ cfg.kind = "paper"
    /\ \E d \in PaperResetDrawSet(cfg) :
          Resets(paper_reset(cfg, Self, d), PaperResetDrawList(cfg, d))
    /\ pc' = "step"
    /\ UNCHANGED <<cfg, sampling, state, work, all_records, episode, run, first_run,
                   failure, call>>

\* the steps of the episode that are done: the loop variable step
StepIndex == Len(all_records) - episode * cfg.STEPS_PER_EPISODE

\* the loop body of a generator that stops after its first episode
GenSteps_single_episode(r, dl) ==
    /\ Becomes(r.self)
    /\ state' = [r.state EXCEPT !.episode_id = episode]
    /\ all_records' = Append(all_records, [r.state EXCEPT !.episode_id = episode])
    /\ work' = r.work
    /\ Drawn(dl, Values(dl))
    /\ IF StepIndex + 1 < cfg.STEPS_PER_EPISODE
       THEN /\ episode' = episode
            /\ pc' = "step"
       ELSE /\ episode' = episode + 1
            /\ pc' = "done"

\* state = env.step(); state['episode_id'] = episode; all_records.append(state),
\* and the heads of the two loops when the episode is over
GenSteps(r, dl) ==
    /\ Becomes(r.self)
    /\ state' = [r.state EXCEPT !.episode_id = episode]
    /\ all_records' = Append(all_records, [r.state EXCEPT !.episode_id = episode])
    /\ work' = r.work
    /\ Drawn(dl, Values(dl))
    /\ IF StepIndex + 1 < cfg.STEPS_PER_EPISODE
       THEN /\ episode' = episode
            /\ pc' = "step"
       ELSE /\ episode' = episode + 1
            /\ pc' = IF episode + 1 < cfg.NUM_EPISODES THEN "reset" ELSE "done"

GenStep ==
    /\ pc = "step"
    /\ cfg.kind = "proposed"
    /\ \E d \in StepDrawSet(cfg, Self) :
          GenSteps(step(cfg, Self, d), StepDrawList(cfg, Self, d))
    /\ UNCHANGED <<cfg, sampling, run, first_run, failure, call>>

GenStepPaper ==
    /\ pc = "step"
    /\ cfg.kind = "paper"
    /\ \E d \in PaperStepDrawSet(cfg, Self) :
          GenSteps(paper_step(cfg, Self, d), PaperStepDrawList(cfg, Self, d))
    /\ UNCHANGED <<cfg, sampling, run, first_run, failure, call>>

\* the generator is run again, in a new process
GenRerun ==
    /\ pc = "done"
    /\ run = 1
    /\ run' = 2
    /\ first_run' = all_records
    /\ pc' = "start"
    /\ rng' = Unseeded
    /\ d2d_tx' = None
    /\ d2d_rx' = None
    /\ interferers' = <<>>
    /\ time_step' = 0
    /\ state' = None
    /\ work' = None
    /\ draws' = <<>>
    /\ all_records' = <<>>
    /\ episode' = 0
    /\ UNCHANGED <<cfg, sampling, tape, failure, call>>

NextGen ==
    \/ GenSeed
    \/ GenConstruct
    \/ GenConstructPaper
    \/ GenReset
    \/ GenResetPaper
    \/ GenStep
    \/ GenStepPaper
    \/ GenRerun

SpecGen == InitGen /\ [][NextGen]_vars

\* a column list that asks for the speed of the transmitter in km/h
cols_kmh ==
    <<"episode_id", "timestamp", "optimal_mode", "tx_pos_x", "tx_pos_y",
      "rx_pos_x", "rx_pos_y", "distance_tx_rx", "distance_bs_rx",
      "tx_speed_kmh", "rx_speed_mps", "tx_power_d2d_dbm", "rx_power_d2d_dbm",
      "tx_power_bs_dbm", "rx_power_cell_dbm", "sinr_d2d_db", "sinr_cell_db",
      "interference_dbm", "noise_dbm", "throughput_d2d_mbps", "throughput_cell_mbps">>

\* generate_dataset: cols, the columns df[cols + remaining_cols] selects
cols ==
    <<"episode_id", "timestamp", "optimal_mode", "tx_pos_x", "tx_pos_y",
      "rx_pos_x", "rx_pos_y", "distance_tx_rx", "distance_bs_rx",
      "tx_speed_mps", "rx_speed_mps", "tx_power_d2d_dbm", "rx_power_d2d_dbm",
      "tx_power_bs_dbm", "rx_power_cell_dbm", "sinr_d2d_db", "sinr_cell_db",
      "interference_dbm", "noise_dbm", "throughput_d2d_mbps", "throughput_cell_mbps">>

\* generate_paper_dataset: cols
paper_cols ==
    <<"episode_id", "timestamp", "optimal_mode", "tx_pos_x", "tx_pos_y",
      "rx_pos_x", "rx_pos_y", "distance_tx_rx", "distance_bs_rx",
      "tx_speed_mps", "rx_speed_mps", "tx_power_d2d_dbm", "rx_power_d2d_dbm",
      "tx_power_bs_dbm", "rx_power_cell_dbm", "sinr_d2d_db", "sinr_cell_db",
      "interference_dbm", "noise_dbm", "throughput_d2d_mbps", "throughput_cell_mbps">>

(***************************************************************************)
(* scripts/preprocess_data.py: the columns preprocess_data reads from the  *)
(* dataset, those it computes, and its feature list.                       *)
(***************************************************************************)

\* lags = [1, 2, 4, 8, 16]
lags == <<1, 2, 4, 8, 16>>

\* the names f'sinr_lag_{lag}' and f'interf_lag_{lag}'
lag_names ==
    {"sinr_lag_" \o ToString(lags[i]) : i \in 1..Len(lags)}
    \cup {"interf_lag_" \o ToString(lags[i]) : i \in 1..Len(lags)}

\* the columns preprocess_data reads to sort, to group and to compute the
\* rolling and the lagged columns
columns_read ==
    {"episode_id", "timestamp", "sinr_d2d_db", "throughput_d2d_mbps", "interference_dbm"}

\* the columns preprocess_data assigns before it selects the features
columns_computed ==
    {"sinr_d2d_mean_5s", "sinr_d2d_std_5s", "throughput_rolling_mean"} \cup lag_names

\* features, with the lag names appended
features ==
    {"sinr_d2d_db", "sinr_cell_db", "throughput_d2d_mbps", "throughput_cell_mbps",
     "distance_tx_rx", "distance_bs_rx", "interference_dbm",
     "sinr_d2d_mean_5s", "sinr_d2d_std_5s", "throughput_rolling_mean"} \cup lag_names

\* target = 'optimal_mode'
target == "optimal_mode"

\* the generator executes a statement: its program counter moves, or the
\* step counter of the environment does
GenRuns ==
    /\ ~(pc = "done" /\ run = 2)
    /\ \E p \in {"start", "construct", "reset", "step", "done"},
          t \in 0..cfg.STEPS_PER_EPISODE :
          /\ <<p, t>> # <<pc, time_step>>
          /\ pc' = p
          /\ time_step' = t

\* the generator is a sequential program: while a run is not over, it goes on
\* executing statements
SpecGenFair == SpecGen /\ WF_<<pc, time_step>>(GenRuns)

(***************************************************************************)
(* Direct calls of the static functions of ChannelModel and                *)
(* ChannelModelPaper, in a process that has seeded the stream: at most     *)
(* MaxCalls calls.                                                         *)
(***************************************************************************)

\* the distances of the calls, in dm
DistanceSamples == {-10, 0, 1, 5, 10, 20, 4850}

CallsMade == IF call = None THEN 0 ELSE call.n

InitChannel ==
    /\ sampling = "channel"
    /\ cfg \in ProposedConfigs
    /\ pc = "calls"
    /\ d2d_tx = None
    /\ d2d_rx = None
    /\ interferers = <<>>
    /\ time_step = 0
    /\ state = None
    /\ work = None
    /\ draws = <<>>
    /\ rng = seed(Unseeded, cfg.SEED)
    /\ tape = <<>>
    /\ failure = "none"
    /\ call = None
    /\ NoGenerator

\* the call fn(args) drew dl and returned result
Called(fn, args, result, dl) ==
    /\ call' = [n |-> CallsMade + 1, fn |-> fn, args |-> args, result |-> result,
                before |-> rng.pos, after |-> rng.pos + Len(dl)]
    /\ Drawn(dl, Values(dl))
    /\ UNCHANGED <<cfg, sampling, pc, d2d_tx, d2d_rx, interferers, time_step, state, work,
                   all_records, episode, run, first_run, failure>>

\* the arguments of a call of compute_received_power: a D2D link or a
\* cellular link of config c, at a sampled distance
PowerArgs(c) ==
    {[tx_power_dbm |-> IF b THEN c.TX_POWER_D2D_DBM ELSE c.TX_POWER_BS_DBM,
      distance_m |-> x, is_d2d |-> b] : x \in DistanceSamples, b \in BOOLEAN}

\* ChannelModel.get_shadowing()
CallGetShadowing ==
    /\ CallsMade < MaxCalls
    /\ \E d \in ChannelDrawSet(cfg, TRUE) :
          Called("get_shadowing", <<>>, get_shadowing(cfg, d),
                 ShadowingDrawList(cfg, "call", d))

\* ChannelModel.get_rayleigh_fading_gain()
CallGetRayleighFadingGain ==
    /\ CallsMade < MaxCalls
    /\ \E d \in ChannelDrawSet(cfg, TRUE) :
          Called("get_rayleigh_fading_gain", <<>>, get_rayleigh_fading_gain(cfg, d),
                 FadingDrawList(cfg, "call", d))

\* ChannelModel.compute_received_power(tx_power_dbm, distance_m, is_d2d)
CallComputeReceivedPower ==
    /\ CallsMade < MaxCalls
    /\ \E a \in PowerArgs(cfg), d \in ChannelDrawSet(cfg, TRUE) :
          Called("compute_received_power", a,
                 compute_received_power(cfg, a.tx_power_dbm, a.distance_m, a.is_d2d, d),
                 ChannelDrawList(cfg, "call", d))

\* ChannelModelPaper.compute_received_power(tx_power_dbm, distance_m, is_d2d)
CallPaperComputeReceivedPower ==
    /\ CallsMade < MaxCalls
    /\ \E a \in PowerArgs(PaperConfig) :
          Called("paper.compute_received_power", a,
                 paper_compute_received_power(PaperConfig, a.tx_power_dbm, a.distance_m,
                                              a.is_d2d),
                 PaperChannelDrawList(PaperConfig, "call"))

\* calculate_path_loss_cellular(distance_m) of ChannelModel or ChannelModelPaper
CallCalculatePathLossCellular ==
    /\ CallsMade < MaxCalls
    /\ \E paper \in BOOLEAN, x \in DistanceSamples :
          Called("calculate_path_loss_cellular", [distance_m |-> x, paper |-> paper],
                 calculate_path_loss_cellular(IF paper THEN PaperConfig ELSE cfg, x), <<>>)

\* calculate_path_loss_d2d(distance_m) of ChannelModel or ChannelModelPaper
CallCalculatePathLossD2D ==
    /\ CallsMade < MaxCalls
    /\ \E paper \in BOOLEAN, x \in DistanceSamples :
          Called("calculate_path_loss_d2d", [distance_m |-> x, paper |-> paper],
                 calculate_path_loss_d2d(IF paper THEN PaperConfig ELSE cfg, x), <<>>)

NextChannel ==
    \/ CallGetShadowing
    \/ CallGetRayleighFadingGain
    \/ CallComputeReceivedPower
    \/ CallPaperComputeReceivedPower
    \/ CallCalculatePathLossCellular
    \/ CallCalculatePathLossD2D

SpecChannel == InitChannel /\ [][NextChannel]_vars

(***************************************************************************)
(* Direct calls of the methods of one UserEquipment: the constructor, then *)
(* any number of move() calls.  The UE is held in d2d_tx; call records the *)
(* last move(): the UE before it, its draws and the UE after it.           *)
(***************************************************************************)

\* SimulationConfig with the values of PROBABILITY_START_MOVING 0, 0.1 and 1
UEConfigs ==
    {[SimulationConfig EXCEPT !.PROBABILITY_START_MOVING = p] : p \in {0, 1000, 10000}}

InitUE ==
    /\ sampling = "ue"
    /\ cfg \in UEConfigs
    /\ pc = "new"
    /\ d2d_tx = None
    /\ d2d_rx = None
    /\ interferers = <<>>
    /\ time_step = 0
    /\ state = None
    /\ work = None
    /\ draws = <<>>
    /\ rng = Unseeded
    /\ tape = <<>>
    /\ failure = "none"
    /\ call = None
    /\ NoGenerator

\* ue = UserEquipment("UE")
ConstructUE ==
    /\ pc = "new"
    /\ \E d \in UEDrawSet(cfg, "mixed", TRUE) :
          /\ d2d_tx' = UserEquipment(cfg, "UE", d)
          /\ Drawn(UEDrawList("UE", d), Values(UEDrawList("UE", d)))
    /\ pc' = "ready"
    /\ UNCHANGED <<cfg, sampling, d2d_rx, interferers, time_step, state, work,
                   all_records, episode, run, first_run, failure, call>>

\* a move() of self that drew d (the list dl) leaves the UE moved
Moved(self, d, moved, dl) ==
    /\ d2d_tx' = moved
    /\ call' = [fn |-> "move", self |-> self, d |-> d, result |-> moved]
    /\ Drawn(dl, Values(dl))

\* ue.move()
MoveUE ==
    /\ pc = "ready"
    /\ \E d \in MoveDrawSet(cfg, d2d_tx, TRUE) :
          Moved(d2d_tx, d, move(cfg, d2d_tx, d), MoveDrawList(cfg, d2d_tx, d))
    /\ UNCHANGED <<cfg, sampling, pc, d2d_rx, interferers, time_step, state, work,
                   all_records, episode, run, first_run, failure>>

NextUE ==
    \/ ConstructUE
    \/ MoveUE

SpecUE == InitUE /\ [][NextUE]_vars

(***************************************************************************)
(* The claims about the environment, checked under Spec.                   *)
(***************************************************************************)

\* the entities of the environment, once it is constructed
Entities == <<d2d_tx, d2d_rx>> \o interferers

\* ue lies within CELL_RADIUS_M of the origin
WithinCell(ue) ==
    ue.position[1] * ue.position[1] + ue.position[2] * ue.position[2]
        <= cfg.CELL_RADIUS_M * cfg.CELL_RADIUS_M

\* C1: in every state reached by construction, reset() and step() calls, in a
\* cell of positive radius, the transmitter, the receiver and every interferer
\* lie within CELL_RADIUS_M of the origin.
C1_PositionsWithinCell ==
    (pc = "ready" /\ cfg.CELL_RADIUS_M > 0) =>
        \A i \in 1..Len(Entities) : WithinCell(Entities[i])

\* the received powers and the interference of the entities where they stand
\* now, with the draws of the last step()
MeasuredNow ==
    IF cfg.kind = "proposed" THEN measure(cfg, Self, work.d) ELSE paper_measure(cfg, Self)

\* C2: the record of a step() is that of the positions after the moves of the
\* same step(): its positions and distances are those of the entities as the
\* step() left them, and its powers, interference, SINR and throughputs are
\* those computed from these distances.
C2_RecordOfMovedEntities ==
    state # None =>
        /\ <<state.tx_pos_x, state.tx_pos_y>> = d2d_tx.position
        /\ <<state.rx_pos_x, state.rx_pos_y>> = d2d_rx.position
        /\ state.distance_tx_rx
             = NormDm(<<d2d_tx.position[1] - d2d_rx.position[1],
                        d2d_tx.position[2] - d2d_rx.position[2]>>)
        /\ state.distance_bs_rx = NormDm(d2d_rx.position)
        /\ work.s_d2d_watts = MeasuredNow.s_d2d_watts
        /\ work.s_cellular_watts = MeasuredNow.s_cellular_watts
        /\ work.total_interference_watts = MeasuredNow.total_interference_watts
        /\ state.sinr_d2d_db
             = ToDb(Div(MeasuredNow.s_d2d_watts,
                        Add(MeasuredNow.total_interference_watts, work.noise_watts)))
        /\ state.sinr_cell_db
             = ToDb(Div(MeasuredNow.s_cellular_watts,
                        Add(MeasuredNow.total_interference_watts, work.noise_watts)))
        /\ state.throughput_d2d_mbps = Throughput(cfg, work.sinr_d2d_linear)
        /\ state.throughput_cell_mbps = Throughput(cfg, work.sinr_cell_linear)

\* a step() has moved the transmitter, the receiver and an interferer, and the
\* two distances of the record differ from those before the moves
C2_Witness ==
    /\ state # None
    /\ work.tx_before # d2d_tx.position
    /\ work.rx_before # d2d_rx.position
    /\ \E i \in 1..Len(interferers) : work.ints_before[i] # interferers[i].position
    /\ state.distance_tx_rx
         # NormDm(<<work.tx_before[1] - work.rx_before[1],
                    work.tx_before[2] - work.rx_before[2]>>)
    /\ state.distance_bs_rx # NormDm(work.rx_before)

\* C3: the label of every record is "D2D" exactly when the D2D throughput is at
\* least the cellular throughput, and "Cellular" otherwise.
C3_LabelByThroughput ==
    state # None =>
        /\ state.optimal_mode \in {"D2D", "Cellular"}
        /\ state.optimal_mode = "D2D"
             <=> state.throughput_d2d_mbps >= state.throughput_cell_mbps

\* a record whose two throughputs are equal, labelled "D2D"
C3_Witness ==
    /\ state # None
    /\ state.throughput_d2d_mbps = state.throughput_cell_mbps
    /\ state.optimal_mode = "D2D"

\* C7: with INTERFERENCE_LOAD_FACTOR = 0 the aggregate interference a step()
\* computes is exactly 0, whatever the number and the positions of the
\* interferers.
C7_NoLoadNoInterference ==
    (state # None /\ cfg.INTERFERENCE_LOAD_FACTOR = Zero) =>
        work.total_interference_watts = Zero

\* a step() under load factor 0 with ten interferers or more, one of them at
\* the receiver's own position
C7_Witness ==
    /\ state # None
    /\ cfg.INTERFERENCE_LOAD_FACTOR = Zero
    /\ Len(interferers) >= 10
    /\ \E i \in 1..Len(interferers) : interferers[i].position = d2d_rx.position
    /\ work.total_interference_watts = Zero

\* C8: in every step() the signal powers, the aggregate interference and the
\* noise are strictly positive, and so is the argument of every logarithm of
\* the record.
C8_PositivePowers ==
    state # None =>
        /\ IsPositive(work.s_d2d_watts)
        /\ IsPositive(work.s_cellular_watts)
        /\ IsPositive(work.total_interference_watts)
        /\ IsPositive(work.noise_watts)
        /\ IsPositive(work.sinr_d2d_linear)
        /\ IsPositive(work.sinr_cell_linear)
        /\ state.interference_dbm # NegInf

\* C9: step() on an environment whose entities are not set up raises and
\* returns no record, and no constructed environment is in that case: the
\* constructor has called reset().
C9_StepNeedsEntities ==
    /\ step(cfg, Blank(cfg), None).failure = "AssertionError"
    /\ step(cfg, Blank(cfg), None).state = None
    /\ paper_step(cfg, Blank(cfg), None).failure = "AssertionError"
    /\ paper_step(cfg, Blank(cfg), None).state = None
    /\ pc = "ready" => d2d_tx # None /\ d2d_rx # None
    /\ failure = "none"
    /\ state # None => d2d_tx # None /\ d2d_rx # None

\* the first step() of an environment, right after its construction
C9_Witness ==
    /\ pc = "ready"
    /\ failure = "none"
    /\ time_step = 1
    /\ state # None
    /\ state.timestamp = 1

\* C10: an environment of an invalid configuration (a bandwidth or a cell
\* radius that is not positive) is never constructed: no reset() and no step()
\* runs under it.
C10_InvalidConfigRejected ==
    (cfg.BANDWIDTH_HZ <= 0 \/ cfg.CELL_RADIUS_M <= 0) =>
        /\ pc \in {"new", "failed"}
        /\ d2d_tx = None
        /\ d2d_rx = None
        /\ state = None

(***************************************************************************)
(* The claim about the generators, checked under SpecGen.                  *)
(***************************************************************************)

\* C4: a second run of the generator from the same seed and configuration
\* collects the records of the first run, one after the other, and ends with
\* the same sequence of records.
C4_SameSeedSameRecords ==
    run = 2 =>
        /\ Len(all_records) <= Len(first_run)
        /\ all_records = SubSeq(first_run, 1, Len(all_records))
        /\ pc = "done" => all_records = first_run

\* the second run is over with all its records, those of the first run, and
\* the records of a run are not all alike
C4_Witness ==
    /\ run = 2
    /\ pc = "done"
    /\ Len(all_records) = cfg.NUM_EPISODES * cfg.STEPS_PER_EPISODE
    /\ Len(all_records) >= 2
    /\ all_records = first_run
    /\ all_records[1].tx_pos_x # all_records[Len(all_records)].tx_pos_x

\* C13: in the proposed environment, right after reset() the receiver is
\* between 10 m and D2D_MAX_DIST_M from the transmitter, and the distance_tx_rx
\* of the record of the first step() after it is at most D2D_MAX_DIST_M plus
\* (tx_speed + rx_speed) x TIME_STEP_S.  Distances are in dm.
C13_PairSeparation ==
    (pc = "ready" /\ cfg.kind = "proposed") =>
        /\ time_step = 0 =>
              /\ get_distance_to(d2d_tx, d2d_rx) >= 10 * 10
              /\ get_distance_to(d2d_tx, d2d_rx) <= 10 * cfg.D2D_MAX_DIST_M
        /\ (time_step = 1 /\ state # None) =>
              state.distance_tx_rx
                 <= 10 * (cfg.D2D_MAX_DIST_M
                          + (state.tx_speed_mps + state.rx_speed_mps) * cfg.TIME_STEP_S)

\* the first step() after a reset() left the pair farther apart than
\* D2D_MAX_DIST_M
C13_Witness ==
    /\ pc = "ready"
    /\ cfg.kind = "proposed"
    /\ time_step = 1
    /\ state # None
    /\ state.distance_tx_rx > 10 * cfg.D2D_MAX_DIST_M

\* C14: after every reset() the pool has 10 to 20 interferers in the proposed
\* environment and NUM_INTERFERER in the paper environment, and a step() leaves
\* in the pool the same devices in the same order, so the size of the pool
\* does not change within an episode.
C14_PoolConstant ==
    /\ [](pc = "ready" =>
            IF cfg.kind = "proposed"
            THEN 10 <= Len(interferers) /\ Len(interferers) <= 20
            ELSE Len(interferers) = cfg.NUM_INTERFERER)
    /\ [][(pc = "ready" /\ time_step' = time_step + 1) =>
            [i \in 1..Len(interferers') |-> interferers'[i].device_id]
                = [i \in 1..Len(interferers) |-> interferers[i].device_id]]_vars

\* a proposed episode with a pool of 20 interferers has run all its steps
C14_Witness ==
    /\ pc = "ready"
    /\ cfg.kind = "proposed"
    /\ Len(interferers) = 20
    /\ time_step = MaxSteps
    /\ state # None

\* the k-th record collected belongs to episode (k - 1) div STEPS_PER_EPISODE
RecordsByEpisode ==
    \A k \in 1..Len(all_records) :
        all_records[k].episode_id = (k - 1) \div cfg.STEPS_PER_EPISODE

\* the statement at pc can be executed: the constructor, reset() or step()
\* has an outcome that the stream allows
GenCanRun ==
    CASE pc = "start" -> TRUE
      [] pc \in {"construct", "reset"} ->
           IF cfg.kind = "proposed"
           THEN \E d \in ResetDrawSet(cfg) : Replays(Values(ResetDrawList(cfg, d)))
           ELSE \E d \in PaperResetDrawSet(cfg) : Replays(Values(PaperResetDrawList(cfg, d)))
      [] pc = "step" ->
           IF cfg.kind = "proposed"
           THEN \E d \in StepDrawSet(cfg, Self) :
                    Replays(Values(StepDrawList(cfg, Self, d)))
           ELSE \E d \in PaperStepDrawSet(cfg, Self) :
                    Replays(Values(PaperStepDrawList(cfg, Self, d)))
      [] pc = "done" -> run = 1

\* C15: every run of the generator reaches its end: while a run is not over
\* the statement at hand can be executed, executing it moves the program
\* counter or the step counter, and the end is reached.  All along, the
\* records collected are those of the episodes in order, STEPS_PER_EPISODE
\* records with episode_id = e for each episode e that is over, and at the end
\* there are NUM_EPISODES x STEPS_PER_EPISODE of them.
C15_GeneratorTerminates ==
    /\ [](/\ RecordsByEpisode
          /\ Len(all_records) <= cfg.NUM_EPISODES * cfg.STEPS_PER_EPISODE
          /\ pc \in {"reset", "done"} =>
                Len(all_records) = episode * cfg.STEPS_PER_EPISODE
          /\ pc = "done" => episode = cfg.NUM_EPISODES
          /\ ~(pc = "done" /\ run = 2) => GenCanRun)
    /\ [][<<pc, time_step>>' # <<pc, time_step>>]_vars
    /\ (pc = "start") ~> (pc = "done")

\* a run is over with the records of its last episode collected
C15_Witness ==
    /\ pc = "done"
    /\ Len(all_records) = NumEpisodes * StepsPerEpisode
    /\ all_records[Len(all_records)].episode_id = NumEpisodes - 1
    /\ all_records[1].episode_id = 0

\* C16: a step() changes the speed of no UE and records the speeds the
\* transmitter and the receiver had before it, so the records of one episode
\* all carry the same tx_speed_mps and the same rx_speed_mps.
C16_SpeedConstant ==
    /\ [](\A j, k \in 1..Len(all_records) :
            all_records[j].episode_id = all_records[k].episode_id =>
                /\ all_records[j].tx_speed_mps = all_records[k].tx_speed_mps
                /\ all_records[j].rx_speed_mps = all_records[k].rx_speed_mps)
    /\ [][pc = "step" =>
            /\ d2d_tx'.speed = d2d_tx.speed
            /\ d2d_rx'.speed = d2d_rx.speed
            /\ \A i \in 1..Len(interferers) : interferers'[i].speed = interferers[i].speed
            /\ state'.tx_speed_mps = d2d_tx.speed
            /\ state'.rx_speed_mps = d2d_rx.speed]_vars

\* an episode is over in which the transmitter, faster than the receiver,
\* arrived at its destination and paused
C16_Witness ==
    /\ pc \in {"reset", "done"}
    /\ Len(all_records) >= StepsPerEpisode
    /\ d2d_tx.is_paused
    /\ state.tx_speed_mps = d2d_tx.speed
    /\ state.tx_speed_mps > state.rx_speed_mps

\* the 21 fields of a StepRecord
StepRecordFields ==
    {"timestamp", "episode_id", "tx_pos_x", "tx_pos_y", "rx_pos_x", "rx_pos_y",
     "distance_tx_rx", "distance_bs_rx", "tx_speed_mps", "rx_speed_mps",
     "tx_power_d2d_dbm", "tx_power_bs_dbm", "rx_power_d2d_dbm", "rx_power_cell_dbm",
     "interference_dbm", "noise_dbm", "sinr_d2d_db", "sinr_cell_db",
     "throughput_d2d_mbps", "throughput_cell_mbps", "optimal_mode"}

\* the names of a list of columns
Named(columns) == {columns[i] : i \in 1..Len(columns)}

\* C17, as amended: every record step() returns, in both environments, has
\* exactly the 21 fields of a StepRecord; every column of the column lists of
\* the two generators is one of them, and so is every column preprocessing
\* reads from the dataset: its sort and group keys, the sources of its rolling
\* and lagged columns, its target, and the features it does not compute itself.
C17_RecordFields ==
    state # None =>
        /\ DOMAIN state = StepRecordFields
        /\ Cardinality(DOMAIN state) = 21
        /\ Named(cols) \subseteq DOMAIN state
        /\ Named(paper_cols) \subseteq DOMAIN state
        /\ columns_read \cup {target} \subseteq DOMAIN state
        /\ features \ columns_computed \subseteq DOMAIN state

\* the paper environment returned the record of the last step of an episode
C17_Witness ==
    /\ state # None
    /\ cfg.kind = "paper"
    /\ time_step = MaxSteps
    /\ DOMAIN state = StepRecordFields

\* C17 as stated: every record has exactly the 21 fields and every name of
\* the column list and of the feature list of preprocessing is one of them.
C17_AllFeaturesAreFields ==
    state # None =>
        /\ DOMAIN state = StepRecordFields
        /\ Named(cols) \subseteq DOMAIN state
        /\ features \subseteq DOMAIN state

\* C21: reset() leaves the step counter at 0 and step() adds exactly 1 to it
\* and records it as the timestamp, so within an episode the counter is the
\* number of step() calls since the reset() and the k-th record of every
\* episode has timestamp k: the timestamps of an episode are 1, 2, ...,
\* STEPS_PER_EPISODE.
C21_StepCounter ==
    /\ [](/\ pc = "step" => time_step = StepIndex
          /\ (pc \in {"reset", "done"} /\ episode > 0) =>
                time_step = cfg.STEPS_PER_EPISODE
          /\ \A k \in 1..Len(all_records) :
                all_records[k].timestamp = ((k - 1) % cfg.STEPS_PER_EPISODE) + 1)
    /\ [][/\ pc \in {"construct", "reset"} => time_step' = 0
          /\ pc = "step" => /\ time_step' = time_step + 1
                            /\ state'.timestamp = time_step']_vars

\* the first step() of the second episode returned its record
C21_Witness ==
    /\ pc = "step"
    /\ episode = 1
    /\ Len(all_records) = StepsPerEpisode + 1
    /\ time_step = 1
    /\ state.timestamp = 1
    /\ all_records[StepsPerEpisode].timestamp = StepsPerEpisode

\* the devices step() moves and the links it computes, in the order of its code
MovedDevices ==
    <<"Target_Tx", "Target_Rx">> \o [i \in 1..Len(interferers) |-> InterfererId(i)]

ComputedLinks ==
    <<"d2d", "cell">> \o [i \in 1..Len(interferers) |-> InterfererId(i)]

\* the stages of one step(): one per move() call, then for every
\* compute_received_power call its shadowing stage and its fading stage; a
\* stage is the set of the call sites that draw in it
DrawStages ==
    [k \in 1..Len(MovedDevices) |->
        {MovedDevices[k] \o ".move.pause",
         MovedDevices[k] \o ".move.destination.radius",
         MovedDevices[k] \o ".move.destination.angle"}]
    \o [k \in 1..(2 * Len(ComputedLinks)) |->
           IF k % 2 = 1
           THEN {ComputedLinks[(k + 1) \div 2] \o ".shadowing.sigma",
                 ComputedLinks[(k + 1) \div 2] \o ".shadowing"}
           ELSE {ComputedLinks[k \div 2] \o ".fading"}]

\* the stage of every draw of the list dl
StagesOf(stages, dl) ==
    [i \in 1..Len(dl) |-> CHOOSE k \in 1..Len(stages) : dl[i].site \in stages[k]]

NonDecreasing(st) == \A i \in 1..(Len(st) - 1) : st[i] <= st[i + 1]

\* every draw of dl belongs to a stage and none comes before a draw of an
\* earlier stage
InStageOrder(stages, dl) ==
    /\ \A i \in 1..Len(dl) : \E k \in 1..Len(stages) : dl[i].site \in stages[k]
    /\ NonDecreasing(StagesOf(stages, dl))

\* the last handler was a step() of the proposed engine that returned a record
AfterProposedStep == cfg.kind = "proposed" /\ pc = "ready" /\ state # None

\* C22: the draws of one step() of the proposed engine come stage by stage:
\* the move() of the transmitter, of the receiver, of every interferer in list
\* order, then the received power of the D2D link, of the cellular link, of
\* every interferer link in list order, and within one received power the
\* shadowing draws before the fading draw. Every draw belongs to one of these
\* stages, no draw comes before a draw of an earlier stage, and every link
\* takes its shadowing draw.
C22_DrawOrder ==
    AfterProposedStep =>
        /\ InStageOrder(DrawStages, draws)
        /\ \A l \in 1..Len(ComputedLinks) :
              \E i \in 1..Len(draws) :
                  draws[i] = [fn |-> "randn", site |-> ComputedLinks[l] \o ".shadowing"]

\* the second step() of an episode, whose first step() brought the transmitter
\* and the first interferer to their destinations: the two draw for their
\* pause, then the D2D link, the cellular link and the interferer links draw
\* their shadowing and their fading gain
C22_Witness ==
    /\ AfterProposedStep
    /\ time_step = 2
    /\ Len(interferers) >= 2
    /\ cfg.USE_RAYLEIGH_FADING
    /\ \A s \in {"Target_Tx.move.pause", "Int_0.move.pause",
                 "d2d.shadowing", "d2d.fading", "cell.shadowing", "cell.fading",
                 "Int_0.shadowing", "Int_0.fading", "Int_1.shadowing", "Int_1.fading"} :
          \E i \in 1..Len(draws) : draws[i].site = s

(***************************************************************************)
(* The claims about the channel functions, checked under SpecChannel.      *)
(***************************************************************************)

\* the received power of a link without shadowing and without fading
UnshadowedPower(c, a) ==
    Pow10Milli(a.tx_power_dbm
                 - (IF a.is_d2d THEN calculate_path_loss_d2d(c, a.distance_m)
                    ELSE calculate_path_loss_cellular(c, a.distance_m))
                 - 3000)

\* C5: the channel model whose shadowing is disabled, the paper's, computes a
\* received power without a shadowing term and draws nothing from the stream:
\* the stream stands after the call where it stood before.
C5_NoShadowingNoDraw ==
    (call # None /\ call.fn = "paper.compute_received_power") =>
        /\ call.result = UnshadowedPower(PaperConfig, call.args)
        /\ draws = <<>>
        /\ call.after = call.before
        /\ rng.pos = call.before

\* a call of the paper's compute_received_power after a call that drew
C5_Witness ==
    /\ call # None
    /\ call.fn = "paper.compute_received_power"
    /\ call.n = 2
    /\ call.before > 0
    /\ rng.pos = call.before

\* C6: get_rayleigh_fading_gain returns exactly 1.0 and draws nothing when
\* USE_RAYLEIGH_FADING is false, and draws exactly one value, an exponential
\* one, when it is true.
C6_FadingDraws ==
    (call # None /\ call.fn = "get_rayleigh_fading_gain") =>
        IF cfg.USE_RAYLEIGH_FADING
        THEN /\ rng.pos = call.before + 1
             /\ Len(draws) = 1
             /\ draws[1].fn = "exponential"
             /\ Len(tape) >= rng.pos
             /\ call.result = Norm(tape[rng.pos], 0)
        ELSE /\ call.result = One
             /\ rng.pos = call.before
             /\ draws = <<>>

\* a call with the fading off that follows a call that drew
C6_Witness ==
    /\ call # None
    /\ call.fn = "get_rayleigh_fading_gain"
    /\ ~cfg.USE_RAYLEIGH_FADING
    /\ call.before > 0
    /\ rng.pos = call.before

\* the configuration of a path-loss call
CalledConfig == IF call.args.paper THEN PaperConfig ELSE cfg

\* a path loss in cdB that is a number: neither infinite nor out of range
FinitePathLoss(pl) == -1000000 < pl /\ pl < 1000000

\* C20: the path-loss and the received-power functions return a value for a
\* zero and for a negative distance: a finite path loss, a positive power.  At
\* every distance of at most 1.0 m (10 dm) the cellular path loss is the one at
\* 1.0 m, at every distance of at most 0.1 m (1 dm) the D2D path loss is the
\* one at 0.1 m, and the received powers are those at the floored distance.
C20_DistanceFloored ==
    call # None =>
        /\ call.fn = "calculate_path_loss_cellular" =>
              /\ FinitePathLoss(call.result)
              /\ call.args.distance_m <= 10 =>
                     call.result = calculate_path_loss_cellular(CalledConfig, 10)
        /\ call.fn = "calculate_path_loss_d2d" =>
              /\ FinitePathLoss(call.result)
              /\ call.args.distance_m <= 1 =>
                     call.result = calculate_path_loss_d2d(CalledConfig, 1)
        /\ call.fn = "paper.compute_received_power" =>
              /\ IsPositive(call.result)
              /\ call.args.distance_m <= (IF call.args.is_d2d THEN 1 ELSE 10) =>
                     call.result
                        = paper_compute_received_power(
                              PaperConfig, call.args.tx_power_dbm,
                              IF call.args.is_d2d THEN 1 ELSE 10, call.args.is_d2d)
        /\ call.fn = "compute_received_power" =>
              /\ IsPositive(call.result)
              /\ call.args.distance_m <= (IF call.args.is_d2d THEN 1 ELSE 10) =>
                     \E d \in ChannelDrawSet(cfg, TRUE) :
                         call.result
                            = compute_received_power(
                                  cfg, call.args.tx_power_dbm,
                                  IF call.args.is_d2d THEN 1 ELSE 10, call.args.is_d2d, d)

\* the cellular path loss was computed for a negative distance
C20_Witness ==
    /\ call # None
    /\ call.fn = "calculate_path_loss_cellular"
    /\ call.args.distance_m < 0
    /\ call.result = calculate_path_loss_cellular(CalledConfig, 10)
    /\ FinitePathLoss(call.result)

(***************************************************************************)
(* The claims about UserEquipment.move, checked under SpecUE.              *)
(***************************************************************************)

\* the last call was a move() of a UE that was paused / moving
MovedFromPaused == call # None /\ call.self.is_paused

MovedFromMoving == call # None /\ ~call.self.is_paused

\* C11: with PROBABILITY_START_MOVING = 0, every move() of a paused UE leaves
\* it paused at the same position, so a paused UE stays where it is however
\* many times move() is called.
C11_PausedForever ==
    [][(pc = "ready" /\ cfg.PROBABILITY_START_MOVING = 0 /\ d2d_tx.is_paused)
          => (d2d_tx'.is_paused /\ d2d_tx'.position = d2d_tx.position)]_vars

\* a paused UE was moved with PROBABILITY_START_MOVING = 0 and the draw 0.0
C11_Witness ==
    /\ cfg.PROBABILITY_START_MOVING = 0
    /\ MovedFromPaused
    /\ call.d.u = 0
    /\ d2d_tx.is_paused
    /\ d2d_tx.position = call.self.position

\* the square of the distance from ue to its destination, and of the distance
\* one move() covers
Remaining2(ue) ==
    (ue.destination[1] - ue.position[1]) * (ue.destination[1] - ue.position[1])
    + (ue.destination[2] - ue.position[2]) * (ue.destination[2] - ue.position[2])

Displacement2(ue) == (ue.speed * cfg.TIME_STEP_S) * (ue.speed * cfg.TIME_STEP_S)

\* C12: with PROBABILITY_START_MOVING = 1, a move() of a moving UE that is
\* farther from its destination than speed x TIME_STEP_S keeps the destination
\* and leaves the UE strictly closer to it; a move() of a moving UE that is not
\* farther than that puts it exactly on the destination.
C12_CloserUntilSnap ==
    [][(pc = "ready" /\ cfg.PROBABILITY_START_MOVING = 10000 /\ ~d2d_tx.is_paused)
          => IF Remaining2(d2d_tx) > Displacement2(d2d_tx)
             THEN /\ d2d_tx'.destination = d2d_tx.destination
                  /\ Remaining2(d2d_tx') < Remaining2(d2d_tx)
             ELSE d2d_tx'.position = d2d_tx.destination]_vars

\* a moving UE farther than one move() from its destination came closer and is
\* now within one move() of it
C12_Witness ==
    /\ cfg.PROBABILITY_START_MOVING = 10000
    /\ MovedFromMoving
    /\ Remaining2(call.self) > Displacement2(call.self)
    /\ Remaining2(d2d_tx) < Remaining2(call.self)
    /\ Remaining2(d2d_tx) <= Displacement2(d2d_tx)
    /\ Remaining2(d2d_tx) > 0

\* the point lies within CELL_RADIUS_M of the origin
InCellDisc(point) ==
    point[1] * point[1] + point[2] * point[2] <= cfg.CELL_RADIUS_M * cfg.CELL_RADIUS_M

\* C18: a move() of a paused UE either leaves it moving, with a destination
\* inside the cell disc, or leaves it paused with its position, destination and
\* speed unchanged; when the resume draw is not below PROBABILITY_START_MOVING
\* it leaves it paused and unchanged.
C18_PausedMoveOutcomes ==
    [][(pc = "ready" /\ d2d_tx.is_paused)
          => /\ \/ /\ ~d2d_tx'.is_paused
                   /\ InCellDisc(d2d_tx'.destination)
                \/ /\ d2d_tx'.is_paused
                   /\ d2d_tx'.position = d2d_tx.position
                   /\ d2d_tx'.destination = d2d_tx.destination
                   /\ d2d_tx'.speed = d2d_tx.speed
             /\ call'.d.u >= cfg.PROBABILITY_START_MOVING
                   => /\ d2d_tx'.is_paused
                      /\ d2d_tx'.position = d2d_tx.position
                      /\ d2d_tx'.destination = d2d_tx.destination
                      /\ d2d_tx'.speed = d2d_tx.speed]_vars

\* the move from position a to position b is along the line from a to the
\* point goal, towards it
Towards(a, b, goal) ==
    /\ (b[1] - a[1]) * (goal[2] - a[2]) = (b[2] - a[2]) * (goal[1] - a[1])
    /\ (b[1] - a[1]) * (goal[1] - a[1]) + (b[2] - a[2]) * (goal[2] - a[2]) > 0

\* C19: a move() of a moving UE whose displacement speed x TIME_STEP_S is at
\* least the remaining distance (0 included) puts it exactly on its destination
\* and pauses it; otherwise it advances the position by exactly the
\* displacement along the line to the destination, keeps the destination and
\* leaves the UE moving.
C19_SnapOrAdvance ==
    [][(pc = "ready" /\ ~d2d_tx.is_paused)
          => /\ d2d_tx'.destination = d2d_tx.destination
             /\ IF Displacement2(d2d_tx) >= Remaining2(d2d_tx)
                THEN /\ d2d_tx'.position = d2d_tx.destination
                     /\ d2d_tx'.is_paused
                ELSE /\ (d2d_tx'.position[1] - d2d_tx.position[1])
                           * (d2d_tx'.position[1] - d2d_tx.position[1])
                        + (d2d_tx'.position[2] - d2d_tx.position[2])
                           * (d2d_tx'.position[2] - d2d_tx.position[2])
                        = Displacement2(d2d_tx)
                     /\ Towards(d2d_tx.position, d2d_tx'.position, d2d_tx.destination)
                     /\ ~d2d_tx'.is_paused]_vars

\* a moving UE that stood on its destination was moved: it is paused there
C19_Witness ==
    /\ MovedFromMoving
    /\ Remaining2(call.self) = 0
    /\ d2d_tx.is_paused
    /\ d2d_tx.position = call.self.destination
====
